---- MODULE Spec2Model ----
(***************************************************************************)
(* Route handlers of the movies / theaters / comments REST API.  Each      *)
(* worker serves one request at a time; a handler is cut into atomic steps *)
(* at the database operations it awaits.  The database is three            *)
(* collections of documents; every database operation may fail, and the    *)
(* shared connection promise is either resolved or rejected.               *)
(***************************************************************************)
EXTENDS Integers, FiniteSets, TLC

\* ---------------------------------------------------------------- bounds
\* Largest ObjectId the database ever generates (caps insertOne).
MaxOid == 3

\* Largest number of documents a collection holds when the lists are read.
MaxDocs == 12

\* find({}).limit(10)
Limit == 10

Workers == {"w1", "w2"}
SeqWorkers == {"w1"}

\* ------------------------------------------------------------------ data
\* ObjectIds are 1..MaxOid.  A path id is the hex string of an ObjectId, or
\* the malformed string 0.
Oids == 1..MaxOid
Malformed == 0
PathIds == {Malformed} \cup Oids
NoId == -1

Titles == {"t1", "t2"}
Texts == {"x", "y"}
Missing == [street1 |-> "", city |-> "", state |-> "", zipcode |-> ""]
Addresses ==
    { [street1 |-> "s1", city |-> "c1", state |-> "CA", zipcode |-> "z1"],
      [street1 |-> "s1", city |-> "c2", state |-> "CA", zipcode |-> "z1"] }

BadJson == [kind |-> "badjson"]
NullBody == [kind |-> "null"]

\* Bodies sent to the theater handlers: unparseable, or an object
\* with an optional `_id` string, a location.geo.type and a location.address
\* (Missing: no address).
TheaterBodies ==
    {BadJson}
    \cup { [kind |-> "object", _id |-> "absent", geo |-> "Point", address |-> a] :
             a \in Addresses }
    \cup { [kind |-> "object", _id |-> "string", geo |-> "Point", address |-> a] :
             a \in {CHOOSE x \in Addresses : x.city = "c1"} }
    \cup { [kind |-> "object", _id |-> "absent", geo |-> "Point", address |-> Missing] }

\* Bodies sent to the movie handlers: `_id` is absent, a 24-hex string or a
\* malformed string; fields says which of the other fields the body carries:
\* "ok" title, plot, genres, year and num_mflix_comments; "documented" title,
\* plot, genres and year only; "bad" one of title, plot, genres, year is
\* missing.
MovieBodies ==
    {BadJson, NullBody}
    \cup { [kind |-> "object", _id |-> i, fields |-> "ok", title |-> t] :
             i \in {"absent", "hex", "malformed"}, t \in Titles }
    \cup { [kind |-> "object", _id |-> "absent", fields |-> "documented", title |-> "t2"] }
    \cup { [kind |-> "object", _id |-> i, fields |-> "bad", title |-> "t1"] :
             i \in {"absent", "malformed"} }

\* Bodies sent to the comment handlers.
CommentBodies ==
    {BadJson, NullBody}
    \cup { [kind |-> "object", email |-> "ok", text |-> t] : t \in Texts }
    \cup { [kind |-> "object", email |-> "bad", text |-> "x"] }

NoBody == [kind |-> "none"]

VARIABLES
    movies,         \* collection 'movies': set of [_id, title]
    theaters,       \* collection 'theaters': set of [_id, theaterId, location]
    comments,       \* collection 'comments': set of [_id, movie_id, text]
    nextOid,        \* the next ObjectId insertOne generates
    clientPromise,  \* "resolved" | "rejected"
    pc,             \* per worker: "idle" | a step of a handler | "done"
    req,            \* per worker: the request being (or last) served
    loc,            \* per worker: the handler's local variables
    st,             \* per worker: what the request has done so far
    resp            \* per worker: the response returned, or NoResp

vars == <<movies, theaters, comments, nextOid, clientPromise, pc, req, loc, st, resp>>
db == <<movies, theaters, comments, nextOid>>

NoResp == [http |-> 0, body |-> [none |-> TRUE]]
NoLoc == [none |-> TRUE]
NoReq == [handler |-> "none", idMovie |-> NoId, idComment |-> NoId,
          idTheater |-> NoId, body |-> NoBody]

\* What a request has done: database operations issued (ops), of which
\* writes, of which issued before the body was validated (early, and earlyW
\* for the writes among them); whether it
\* awaited the connection, read the body, validated the body, met a database
\* failure; how many documents it inserted.
NewSt == [ops |-> 0, writes |-> 0, early |-> 0, earlyW |-> 0, conn |-> FALSE,
          bodyRead |-> FALSE, validated |-> FALSE, dbFault |-> FALSE, inserted |-> 0]

Request(h, m, c, t, b) ==
    [handler |-> h, idMovie |-> m, idComment |-> c, idTheater |-> t, body |-> b]

\* ------------------------------------------------------- library behaviour
\* isValid accepting every string.
isValid_AnyString(id) == TRUE

\* ObjectId.isValid(id)
isValid(id) == id \in Oids

\* ObjectId.createFromHexString(id) throws BSONError on a malformed string.
createFromHexStringThrows(id) == id \notin Oids
createFromHexString(id) == id

\* request.json() throws SyntaxError on a body that is not JSON.
jsonThrows(body) == body.kind = "badjson"

\* NextResponse.json(body): no init argument is ever passed, so the HTTP
\* status of the response is the default.
NextResponseJson(body) == [http |-> 200, body |-> body]

\* A JSON array of documents.
Array(docs) == [array |-> docs]

\* await clientPromise
Connect(s) == [s EXCEPT !.conn = TRUE,
                        !.dbFault = @ \/ clientPromise = "rejected"]
ReadBody(s) == [s EXCEPT !.bodyRead = TRUE]
Validated(s) == [s EXCEPT !.validated = TRUE]
\* An operation that is issued again when it fails.
Issue_Retry(s, write, fault) ==
    [s EXCEPT !.ops = @ + (IF fault THEN 2 ELSE 1),
              !.writes = IF write THEN @ + 1 ELSE @,
              !.early = IF s.validated THEN @ ELSE @ + 1,
              !.earlyW = IF s.validated \/ ~write THEN @ ELSE @ + 1,
              !.dbFault = @ \/ fault]

\* One database operation issued; fault: it failed.
Issue(s, write, fault) ==
    [s EXCEPT !.ops = @ + 1,
              !.writes = IF write THEN @ + 1 ELSE @,
              !.early = IF s.validated THEN @ ELSE @ + 1,
              !.earlyW = IF s.validated \/ ~write THEN @ ELSE @ + 1,
              !.dbFault = @ \/ fault]
Inserted(s) == [s EXCEPT !.inserted = @ + 1]

\* ----------------------------------------------------------- the schemas
\* theaterSchema.parse({...body, theaterId}): `_id` must be an ObjectId
\* instance (a JSON string is not), theaterId a number, location complete.
theaterSchemaOk(data) ==
    /\ data.kind = "object"
    /\ data._id = "absent"
    /\ data.theaterId \in Int
    /\ data.geo = "Point"
    /\ data.address # Missing

\* An update schema whose location.address is optional.
theaterUpdateSchemaOk_AddressOptional(body) ==
    /\ body.kind = "object"
    /\ body.geo = "Point"

\* theaterUpdateSchema = theaterSchema.omit({_id, theaterId}): unknown keys
\* are stripped, so `_id` in the body is not looked at.
theaterUpdateSchemaOk(body) ==
    /\ body.kind = "object"
    /\ body.geo = "Point"
    /\ body.address # Missing

Location(body) == [address |-> body.address, geo |-> body.geo]

\* movieSchema.parse(body): `_id` optional ObjectId instance; plot, genres,
\* num_mflix_comments, title and year required.
movieSchemaOk(body) ==
    /\ body.kind = "object"
    /\ body._id \in {"absent", "ObjectId"}
    /\ body.fields = "ok"

\* The comment schema with its `_id` left in: a JSON body carries no ObjectId
\* instance.
commentSchemaOk_IdRequired(body) ==
    /\ body.kind = "object"
    /\ body.email = "ok"
    /\ "_id" \in DOMAIN body

\* commentSchema.pick({name, email, text}) and commentSchema.omit({_id}):
\* movie_id and date are supplied by the handler.
commentSchemaOk(body) ==
    /\ body.kind = "object"
    /\ body.email = "ok"

\* ------------------------------------------------------------- responses
\* A 500 envelope that also carries the stack.
InternalServerError_WithStack(err) ==
    NextResponseJson([status |-> 500, message |-> "Internal Server Error",
                      error |-> err, stack |-> err])

InternalServerError(err) ==
    NextResponseJson([status |-> 500, message |-> "Internal Server Error",
                      error |-> err])

ValidationError(err) ==
    NextResponseJson([status |-> 400, message |-> "Validation error",
                      errors |-> err])

\* A catch that handles ZodError and rethrows everything else.
CatchZod_Rethrow(err) ==
    IF err = "ZodError" THEN ValidationError(err)
    ELSE [http |-> 500, body |-> [uncaught |-> err]]

\* catch (error) { if (error.name === 'ZodError') 400 else 500 }
CatchZod(err) ==
    IF err = "ZodError" THEN ValidationError(err) ELSE InternalServerError(err)

MethodNotAllowedResponse(method) ==
    NextResponseJson([status |-> 405, message |-> "Method Not Allowed",
                      error |-> method])

\* ----------------------------------------------------------------- steps
Ready(p) == pc[p] = "idle"

\* The handler returns response r.
Return(p, q, s, r) ==
    /\ pc' = [pc EXCEPT ![p] = "done"]
    /\ req' = [req EXCEPT ![p] = q]
    /\ st' = [st EXCEPT ![p] = s]
    /\ resp' = [resp EXCEPT ![p] = r]
    /\ loc' = [loc EXCEPT ![p] = NoLoc]

\* The handler is suspended at the await of its next database operation.
Await(p, q, s, l, at) ==
    /\ pc' = [pc EXCEPT ![p] = at]
    /\ req' = [req EXCEPT ![p] = q]
    /\ st' = [st EXCEPT ![p] = s]
    /\ resp' = [resp EXCEPT ![p] = NoResp]
    /\ loc' = [loc EXCEPT ![p] = l]

\* The outcomes of a database operation: it succeeds or fails; a handler that
\* does not reach the operation has the one outcome.
Faults(reached) == IF reached THEN BOOLEAN ELSE {FALSE}

\* A request that may insert starts only while an ObjectId is left for it.
CanInsert ==
    nextOid + Cardinality({w \in Workers : pc[w] \in {"tpFind", "tpInsert", "cpInsert"}})
        <= MaxOid

Max(S) == CHOOSE x \in S : \A y \in S : y <= x

Init ==
    /\ movies = {[_id |-> 1, title |-> "t1"]}
    /\ theaters = {}
    /\ comments = {}
    /\ nextOid = 2
    /\ clientPromise \in {"resolved", "rejected"}
    /\ pc = [p \in Workers |-> "idle"]
    /\ req = [p \in Workers |-> NoReq]
    /\ loc = [p \in Workers |-> NoLoc]
    /\ st = [p \in Workers |-> NewSt]
    /\ resp = [p \in Workers |-> NoResp]

\* ------------------------------------------------------ /api/theaters
\* A find without the limit.
FindLimit_NoLimit(coll) == {coll}

\* find({}).limit(10).toArray()
FindLimit(coll) ==
    { S \in SUBSET coll :
        Cardinality(S) = (IF Cardinality(coll) < Limit THEN Cardinality(coll) ELSE Limit) }

Theaters_GET(p) ==
    /\ Ready(p)
    /\ \E fault \in Faults(clientPromise = "resolved"),
          data \in FindLimit(theaters) :
        LET q == Request("Theaters_GET", NoId, NoId, NoId, NoBody)
            s1 == Connect(NewSt)
            s2 == Issue(s1, FALSE, fault)
        IN  /\ IF clientPromise = "rejected"
               THEN Return(p, q, s1, InternalServerError("MongoError"))
               ELSE IF fault
               THEN Return(p, q, s2, InternalServerError("MongoError"))
               ELSE Return(p, q, s2, NextResponseJson([status |-> 200, data |-> Array(data)]))
            /\ UNCHANGED <<db, clientPromise>>

\* latestTheater.length > 0 ? latestTheater[0].theaterId + 1 : 1
NewTheaterId(coll) ==
    IF coll = {} THEN 1 ELSE Max({t.theaterId : t \in coll}) + 1

\* POST, up to the first database operation and the validation after it.
Theaters_POST(p) ==
    /\ Ready(p)
    /\ CanInsert
    /\ \E body \in TheaterBodies :
       \E fault \in Faults(~jsonThrows(body) /\ clientPromise = "resolved") :
        LET q == Request("Theaters_POST", NoId, NoId, NoId, body)
            s0 == ReadBody(NewSt)
            s1 == Connect(s0)
            s2 == Issue(s1, FALSE, fault)
            newTheaterId == NewTheaterId(theaters)
            dataToValidate ==
                IF body.kind = "object"
                THEN [body EXCEPT !.kind = "object"] @@ [theaterId |-> newTheaterId]
                ELSE [kind |-> "empty", theaterId |-> newTheaterId]
        IN  /\ IF jsonThrows(body)
               THEN Return(p, q, s0, CatchZod("SyntaxError"))
               ELSE IF clientPromise = "rejected"
               THEN Return(p, q, s1, CatchZod("MongoError"))
               ELSE IF fault
               THEN Return(p, q, s2, CatchZod("MongoError"))
               ELSE IF ~theaterSchemaOk(dataToValidate)
               THEN Return(p, q, s2, CatchZod("ZodError"))
               ELSE Await(p, q, Validated(s2),
                          [theaterId |-> newTheaterId, location |-> Location(body)],
                          "tpFind")
            /\ UNCHANGED <<db, clientPromise>>

\* A lookup on the street alone.
FindByAddress_StreetOnly(coll, a) ==
    { t \in coll : t.location.address.street1 = a.street1 }

\* findOne({"location.address.street1": ..., city, state, zipcode})
FindByAddress(coll, a) ==
    { t \in coll : /\ t.location.address.street1 = a.street1
                   /\ t.location.address.city = a.city
                   /\ t.location.address.state = a.state
                   /\ t.location.address.zipcode = a.zipcode }

Theaters_POST_findExisting(p) ==
    /\ pc[p] = "tpFind"
    /\ \E fault \in BOOLEAN :
        LET s == Issue(st[p], FALSE, fault)
            existingTheater == FindByAddress(theaters, loc[p].location.address)
        IN  /\ IF fault
               THEN Return(p, req[p], s, CatchZod("MongoError"))
               ELSE IF existingTheater # {}
               THEN Return(p, req[p], s,
                           NextResponseJson([status |-> 400,
                                             message |-> "Theater already exists"]))
               ELSE Await(p, req[p], s, loc[p], "tpInsert")
            /\ UNCHANGED <<db, clientPromise>>

Theaters_POST_insertOne(p) ==
    /\ pc[p] = "tpInsert"
    /\ \E fault \in BOOLEAN :
        LET s == Issue(st[p], TRUE, fault)
            doc == [_id |-> nextOid, theaterId |-> loc[p].theaterId,
                    location |-> loc[p].location]
        IN  IF fault
            THEN /\ Return(p, req[p], s, CatchZod("MongoError"))
                 /\ UNCHANGED <<db, clientPromise>>
            ELSE /\ theaters' = theaters \cup {doc}
                 /\ nextOid' = nextOid + 1
                 /\ Return(p, req[p], Inserted(s),
                           NextResponseJson(
                               [status |-> 201,
                                data |-> [insertedId |-> doc._id,
                                          theaterId |-> loc[p].theaterId],
                                message |-> "Theater created"]))
                 /\ UNCHANGED <<movies, comments, clientPromise>>

\* --------------------------------------------- /api/theaters/{idTheater}
InvalidTheaterId ==
    NextResponseJson([status |-> 400, message |-> "Invalid Theater ID",
                      error |-> "ID format is incorrect"])

\* catch of PUT and DELETE /api/theaters/{idTheater}
CatchTheater(err) ==
    IF err = "ZodError"
    THEN NextResponseJson([status |-> 400, message |-> "Validation error",
                           errors |-> err])
    ELSE InternalServerError(err)

Theater_GET(p) ==
    /\ Ready(p)
    /\ \E idTheater \in PathIds :
       \E fault \in Faults(isValid(idTheater) /\ clientPromise = "resolved") :
        LET q == Request("Theater_GET", NoId, NoId, idTheater, NoBody)
            s1 == Connect(NewSt)
            s2 == Issue(s1, FALSE, fault)
            found == { t \in theaters : t._id = createFromHexString(idTheater) }
        IN  /\ IF ~isValid(idTheater)
               THEN Return(p, q, NewSt, InvalidTheaterId)
               ELSE IF clientPromise = "rejected"
               THEN Return(p, q, s1, InternalServerError("MongoError"))
               ELSE IF fault
               THEN Return(p, q, s2, InternalServerError("MongoError"))
               ELSE IF found = {}
               THEN Return(p, q, s2,
                           NextResponseJson([status |-> 404,
                                             message |-> "Theater not found",
                                             error |-> "No Theater found with the given ID"]))
               ELSE Return(p, q, s2,
                           NextResponseJson([status |-> 200,
                                             data |-> [Theater |-> CHOOSE t \in found : TRUE]]))
            /\ UNCHANGED <<db, clientPromise>>

Theater_PUT(p) ==
    /\ Ready(p)
    /\ \E idTheater \in PathIds, body \in TheaterBodies :
       \E fault \in Faults(/\ isValid(idTheater) /\ ~jsonThrows(body)
                            /\ theaterUpdateSchemaOk(body)
                            /\ clientPromise = "resolved") :
        LET q == Request("Theater_PUT", NoId, NoId, idTheater, body)
            s0 == ReadBody(NewSt)
            s1 == Connect(Validated(s0))
            s2 == Issue(s1, TRUE, fault)
            matched == { t \in theaters : t._id = createFromHexString(idTheater) }
        IN  IF ~isValid(idTheater)
            THEN Return(p, q, NewSt, InvalidTheaterId) /\ UNCHANGED <<db, clientPromise>>
            ELSE IF jsonThrows(body)
            THEN Return(p, q, s0, CatchTheater("SyntaxError")) /\ UNCHANGED <<db, clientPromise>>
            ELSE IF ~theaterUpdateSchemaOk(body)
            THEN Return(p, q, s0, CatchTheater("ZodError")) /\ UNCHANGED <<db, clientPromise>>
            ELSE IF clientPromise = "rejected"
            THEN Return(p, q, s1, CatchTheater("MongoError")) /\ UNCHANGED <<db, clientPromise>>
            ELSE IF fault
            THEN Return(p, q, s2, CatchTheater("MongoError")) /\ UNCHANGED <<db, clientPromise>>
            ELSE IF matched = {}
            THEN /\ Return(p, q, s2, NextResponseJson([status |-> 404,
                                                       message |-> "Theater not found"]))
                 /\ UNCHANGED <<db, clientPromise>>
            ELSE /\ theaters' = { IF t \in matched
                                  THEN [t EXCEPT !.location = Location(body)]
                                  ELSE t : t \in theaters }
                 /\ Return(p, q, s2, NextResponseJson([status |-> 200,
                                                       message |-> "Theater updated"]))
                 /\ UNCHANGED <<movies, comments, nextOid, clientPromise>>

Theater_DELETE(p) ==
    /\ Ready(p)
    /\ \E idTheater \in PathIds :
       \E fault \in Faults(isValid(idTheater) /\ clientPromise = "resolved") :
        LET q == Request("Theater_DELETE", NoId, NoId, idTheater, NoBody)
            s1 == Connect(NewSt)
            s2 == Issue(s1, TRUE, fault)
            matched == { t \in theaters : t._id = createFromHexString(idTheater) }
        IN  IF ~isValid(idTheater)
            THEN Return(p, q, NewSt, InvalidTheaterId) /\ UNCHANGED <<db, clientPromise>>
            ELSE IF clientPromise = "rejected"
            THEN Return(p, q, s1, InternalServerError("MongoError")) /\ UNCHANGED <<db, clientPromise>>
            ELSE IF fault
            THEN Return(p, q, s2, InternalServerError("MongoError")) /\ UNCHANGED <<db, clientPromise>>
            ELSE IF matched = {}
            THEN /\ Return(p, q, s2, NextResponseJson([status |-> 404,
                                                       message |-> "Theater not found"]))
                 /\ UNCHANGED <<db, clientPromise>>
            ELSE /\ theaters' = theaters \ matched
                 /\ Return(p, q, s2, NextResponseJson([status |-> 200,
                                                       message |-> "Theater deleted"]))
                 /\ UNCHANGED <<movies, comments, nextOid, clientPromise>>

\* ------------------------------------------------------------ /api/movies
Movies_GET(p) ==
    /\ Ready(p)
    /\ \E fault \in Faults(clientPromise = "resolved"),
          data \in FindLimit(movies) :
        LET q == Request("Movies_GET", NoId, NoId, NoId, NoBody)
            s1 == Connect(NewSt)
            s2 == Issue(s1, FALSE, fault)
        IN  /\ IF clientPromise = "rejected"
               THEN Return(p, q, s1, InternalServerError("MongoError"))
               ELSE IF fault
               THEN Return(p, q, s2, InternalServerError("MongoError"))
               ELSE Return(p, q, s2, NextResponseJson([status |-> 200, data |-> Array(data)]))
            /\ UNCHANGED <<db, clientPromise>>

Movies_POST(p) ==
    /\ Ready(p)
    /\ CanInsert
    /\ \E body \in MovieBodies :
       \E fault \in Faults(/\ clientPromise = "resolved" /\ ~jsonThrows(body)
                            /\ movieSchemaOk(body)) :
        LET q == Request("Movies_POST", NoId, NoId, NoId, body)
            s1 == Connect(NewSt)
            s2 == ReadBody(s1)
            s3 == Issue(Validated(s2), TRUE, fault)
            doc == [_id |-> nextOid, title |-> body.title]
        IN  IF clientPromise = "rejected"
            THEN Return(p, q, s1, InternalServerError("MongoError")) /\ UNCHANGED <<db, clientPromise>>
            ELSE IF jsonThrows(body)
            THEN Return(p, q, s2, InternalServerError("SyntaxError")) /\ UNCHANGED <<db, clientPromise>>
            ELSE IF ~movieSchemaOk(body)
            THEN /\ Return(p, q, s2,
                           NextResponseJson([status |-> 400,
                                             message |-> "Invalid movie data",
                                             errors |-> "ZodError"]))
                 /\ UNCHANGED <<db, clientPromise>>
            ELSE IF fault
            THEN Return(p, q, s3, InternalServerError("MongoError")) /\ UNCHANGED <<db, clientPromise>>
            ELSE /\ movies' = movies \cup {doc}
                 /\ nextOid' = nextOid + 1
                 /\ Return(p, q, Inserted(s3),
                           NextResponseJson([status |-> 201,
                                             message |-> "Movie created successfully",
                                             data |-> [insertedId |-> doc._id]]))
                 /\ UNCHANGED <<theaters, comments, clientPromise>>

\* --------------------------------------------------- /api/movies/{idMovie}
Movie_GET(p) ==
    /\ Ready(p)
    /\ \E idMovie \in PathIds :
       \E fault \in Faults(clientPromise = "resolved" /\ isValid(idMovie)) :
        LET q == Request("Movie_GET", idMovie, NoId, NoId, NoBody)
            s1 == Connect(NewSt)
            s2 == Issue(s1, FALSE, fault)
            found == { m \in movies : m._id = createFromHexString(idMovie) }
        IN  /\ IF clientPromise = "rejected"
               THEN Return(p, q, s1, InternalServerError("MongoError"))
               ELSE IF ~isValid(idMovie)
               THEN Return(p, q, s1,
                           NextResponseJson([status |-> 400,
                                             message |-> "Invalid movie ID",
                                             error |-> "ID format is incorrect"]))
               ELSE IF fault
               THEN Return(p, q, s2, InternalServerError("MongoError"))
               ELSE IF found = {}
               THEN Return(p, q, s2,
                           NextResponseJson([status |-> 404,
                                             message |-> "Movie not found",
                                             error |-> "No movie found with the given ID"]))
               ELSE Return(p, q, s2,
                           NextResponseJson([status |-> 200,
                                             data |-> [movie |-> CHOOSE m \in found : TRUE]]))
            /\ UNCHANGED <<db, clientPromise>>

\* if (typeof body._id === 'string') body._id = ObjectId.createFromHexString(body._id)
ConvertBodyId(body) ==
    IF body._id = "hex" THEN [body EXCEPT !._id = "ObjectId"] ELSE body

\* What PUT does with path id idMovie and the body, from the stored movies:
\* the request's record, the response and the movies collection afterwards.
\* fault: updateOne fails.
Movie_PUT_Outcome(idMovie, body, fault) ==
    LET s0 == ReadBody(NewSt)
        s1 == Connect(Validated(s0))
        s2 == Issue(s1, TRUE, fault)
        matched == { m \in movies : m._id = createFromHexString(idMovie) }
        Unchanged(s, r) == [st |-> s, resp |-> r, movies |-> movies]
    IN  IF jsonThrows(body)
        THEN Unchanged(s0, CatchZod("SyntaxError"))
        ELSE IF body.kind = "null"
        THEN Unchanged(s0, CatchZod("TypeError"))
        ELSE IF body._id = "malformed"
        THEN Unchanged(s0, CatchZod("BSONError"))
        ELSE IF ~movieSchemaOk(ConvertBodyId(body))
        THEN Unchanged(s0, CatchZod("ZodError"))
        ELSE IF clientPromise = "rejected"
        THEN Unchanged(s1, CatchZod("MongoError"))
        ELSE IF createFromHexStringThrows(idMovie)
        THEN Unchanged(s1, CatchZod("BSONError"))
        ELSE IF fault
        THEN Unchanged(s2, CatchZod("MongoError"))
        ELSE IF matched = {}
        THEN Unchanged(s2, NextResponseJson([status |-> 404,
                                             message |-> "Movie not found"]))
        ELSE [st |-> s2,
              resp |-> NextResponseJson([status |-> 200,
                                         message |-> "Movie updated"]),
              movies |-> { IF m \in matched
                           THEN [m EXCEPT !.title = body.title]
                           ELSE m : m \in movies }]

Movie_PUT(p) ==
    /\ Ready(p)
    /\ \E idMovie \in PathIds, body \in MovieBodies :
       \E fault \in Faults(/\ body.kind = "object" /\ body._id # "malformed"
                            /\ movieSchemaOk(ConvertBodyId(body))
                            /\ clientPromise = "resolved"
                            /\ ~createFromHexStringThrows(idMovie)) :
        LET q == Request("Movie_PUT", idMovie, NoId, NoId, body)
            o == Movie_PUT_Outcome(idMovie, body, fault)
        IN  /\ Return(p, q, o.st, o.resp)
            /\ movies' = o.movies
            /\ UNCHANGED <<theaters, comments, nextOid, clientPromise>>

Movie_DELETE(p) ==
    /\ Ready(p)
    /\ \E idMovie \in PathIds :
       \E fault \in Faults(/\ clientPromise = "resolved"
                            /\ ~createFromHexStringThrows(idMovie)) :
        LET q == Request("Movie_DELETE", idMovie, NoId, NoId, NoBody)
            s1 == Connect(NewSt)
            s2 == Issue(s1, TRUE, fault)
            matched == { m \in movies : m._id = createFromHexString(idMovie) }
        IN  IF clientPromise = "rejected"
            THEN Return(p, q, s1, InternalServerError("MongoError")) /\ UNCHANGED <<db, clientPromise>>
            ELSE IF createFromHexStringThrows(idMovie)
            THEN Return(p, q, s1, InternalServerError("BSONError")) /\ UNCHANGED <<db, clientPromise>>
            ELSE IF fault
            THEN Return(p, q, s2, InternalServerError("MongoError")) /\ UNCHANGED <<db, clientPromise>>
            ELSE IF matched = {}
            THEN /\ Return(p, q, s2, NextResponseJson([status |-> 404,
                                                       message |-> "Movie not found"]))
                 /\ UNCHANGED <<db, clientPromise>>
            ELSE /\ movies' = movies \ matched
                 /\ Return(p, q, s2, NextResponseJson([status |-> 200,
                                                       message |-> "Movie deleted"]))
                 /\ UNCHANGED <<theaters, comments, nextOid, clientPromise>>

\* POST of the other revision of /api/movies/{idMovie}: const {_id, ...data} = body
Movie_POST(p) ==
    /\ Ready(p)
    /\ CanInsert
    /\ \E body \in MovieBodies :
       \E fault \in Faults(/\ body.kind = "object" /\ body.fields = "ok"
                            /\ clientPromise = "resolved") :
        LET q == Request("Movie_POST", NoId, NoId, NoId, body)
            s0 == ReadBody(NewSt)
            s1 == Connect(Validated(s0))
            s2 == Issue(s1, TRUE, fault)
            data == [body EXCEPT !._id = "absent"]
            doc == [_id |-> nextOid, title |-> body.title]
        IN  IF jsonThrows(body)
            THEN Return(p, q, s0, CatchZod("SyntaxError")) /\ UNCHANGED <<db, clientPromise>>
            ELSE IF body.kind = "null"
            THEN Return(p, q, s0, CatchZod("TypeError")) /\ UNCHANGED <<db, clientPromise>>
            ELSE IF ~movieSchemaOk(data)
            THEN Return(p, q, s0, CatchZod("ZodError")) /\ UNCHANGED <<db, clientPromise>>
            ELSE IF clientPromise = "rejected"
            THEN Return(p, q, s1, CatchZod("MongoError")) /\ UNCHANGED <<db, clientPromise>>
            ELSE IF fault
            THEN Return(p, q, s2, CatchZod("MongoError")) /\ UNCHANGED <<db, clientPromise>>
            ELSE /\ movies' = movies \cup {doc}
                 /\ nextOid' = nextOid + 1
                 /\ Return(p, q, Inserted(s2),
                           NextResponseJson([status |-> 201,
                                             data |-> [insertedId |-> doc._id],
                                             message |-> "Movie created"]))
                 /\ UNCHANGED <<theaters, comments, clientPromise>>

\* ------------------------------------------ /api/movies/{idMovie}/comments
InvalidMovieId ==
    NextResponseJson([status |-> 400, message |-> "Invalid movie ID",
                      error |-> "ID format is incorrect"])

Comments_GET(p) ==
    /\ Ready(p)
    /\ \E idMovie \in PathIds :
       \E fault \in Faults(isValid(idMovie) /\ clientPromise = "resolved") :
        LET q == Request("Comments_GET", idMovie, NoId, NoId, NoBody)
            s1 == Connect(NewSt)
            s2 == Issue(s1, FALSE, fault)
            found == { c \in comments : c.movie_id = createFromHexString(idMovie) }
        IN  /\ IF ~isValid(idMovie)
               THEN Return(p, q, NewSt, InvalidMovieId)
               ELSE IF clientPromise = "rejected"
               THEN Return(p, q, s1, InternalServerError("MongoError"))
               ELSE IF fault
               THEN Return(p, q, s2, InternalServerError("MongoError"))
               ELSE IF found = {}
               THEN Return(p, q, s2,
                           NextResponseJson([status |-> 200,
                                             message |-> "No comments available for this movie.",
                                             data |-> Array({})]))
               ELSE Return(p, q, s2, NextResponseJson([status |-> 200, data |-> Array(found)]))
            /\ UNCHANGED <<db, clientPromise>>

\* POST, up to findOne on the movies collection.
Comments_POST(p) ==
    /\ Ready(p)
    /\ CanInsert
    /\ \E idMovie \in PathIds, body \in CommentBodies :
       \E fault \in Faults(isValid(idMovie) /\ clientPromise = "resolved") :
        LET q == Request("Comments_POST", idMovie, NoId, NoId, body)
            s1 == Connect(NewSt)
            s2 == Issue(s1, FALSE, fault)
            movieExists == { m \in movies : m._id = createFromHexString(idMovie) }
        IN  /\ IF ~isValid(idMovie)
               THEN Return(p, q, NewSt, InvalidMovieId)
               ELSE IF clientPromise = "rejected"
               THEN Return(p, q, s1, CatchZod("MongoError"))
               ELSE IF fault
               THEN Return(p, q, s2, CatchZod("MongoError"))
               ELSE IF movieExists = {}
               THEN Return(p, q, s2,
                           NextResponseJson([status |-> 404,
                                             message |-> "Movie not found",
                                             error |-> "No movie found with the given ID"]))
               ELSE Await(p, q, s2, NoLoc, "cpInsert")
            /\ UNCHANGED <<db, clientPromise>>

\* POST, from request.json() to insertOne.
Comments_POST_insertOne(p) ==
    /\ pc[p] = "cpInsert"
    /\ \E fault \in Faults(commentSchemaOk(req[p].body)) :
        LET body == req[p].body
            s0 == ReadBody(st[p])
            s1 == Issue(Validated(s0), TRUE, fault)
            doc == [_id |-> nextOid,
                    movie_id |-> createFromHexString(req[p].idMovie),
                    text |-> body.text]
        IN  IF jsonThrows(body)
            THEN Return(p, req[p], s0, CatchZod("SyntaxError")) /\ UNCHANGED <<db, clientPromise>>
            ELSE IF ~commentSchemaOk(body)
            THEN Return(p, req[p], s0, CatchZod("ZodError")) /\ UNCHANGED <<db, clientPromise>>
            ELSE IF fault
            THEN Return(p, req[p], s1, CatchZod("MongoError")) /\ UNCHANGED <<db, clientPromise>>
            ELSE /\ comments' = comments \cup {doc}
                 /\ nextOid' = nextOid + 1
                 /\ Return(p, req[p], Inserted(s1),
                           NextResponseJson([status |-> 201,
                                             data |-> [insertedId |-> doc._id],
                                             message |-> "Comment created successfully"]))
                 /\ UNCHANGED <<movies, theaters, clientPromise>>

\* ------------------------- /api/movies/{idMovie}/comments/{idComment}
InvalidIds ==
    NextResponseJson([status |-> 400, message |-> "Invalid movie ID or comment ID"])

CommentNotFound ==
    NextResponseJson([status |-> 404, message |-> "Comment not found for this movie"])

\* {_id: idComment, movie_id: idMovie}
FindComment(coll, idComment, idMovie) ==
    { c \in coll : /\ c._id = createFromHexString(idComment)
                   /\ c.movie_id = createFromHexString(idMovie) }

Comment_GET(p) ==
    /\ Ready(p)
    /\ \E idMovie \in PathIds, idComment \in PathIds :
       \E fault \in Faults(/\ isValid(idMovie) /\ isValid(idComment)
                            /\ clientPromise = "resolved") :
        LET q == Request("Comment_GET", idMovie, idComment, NoId, NoBody)
            s1 == Connect(NewSt)
            s2 == Issue(s1, FALSE, fault)
            comment == FindComment(comments, idComment, idMovie)
        IN  /\ IF ~isValid(idMovie) \/ ~isValid(idComment)
               THEN Return(p, q, NewSt, InvalidIds)
               ELSE IF clientPromise = "rejected"
               THEN Return(p, q, s1, InternalServerError("MongoError"))
               ELSE IF fault
               THEN Return(p, q, s2, InternalServerError("MongoError"))
               ELSE IF comment = {}
               THEN Return(p, q, s2, CommentNotFound)
               ELSE Return(p, q, s2,
                           NextResponseJson([status |-> 200,
                                             data |-> CHOOSE c \in comment : TRUE]))
            /\ UNCHANGED <<db, clientPromise>>

\* PUT, up to findOne on the comments collection.
Comment_PUT(p) ==
    /\ Ready(p)
    /\ \E idMovie \in PathIds, idComment \in PathIds, body \in CommentBodies :
       \E fault \in Faults(/\ isValid(idMovie) /\ isValid(idComment)
                            /\ clientPromise = "resolved") :
        LET q == Request("Comment_PUT", idMovie, idComment, NoId, body)
            s1 == Connect(NewSt)
            s2 == Issue(s1, FALSE, fault)
            commentExists == FindComment(comments, idComment, idMovie)
        IN  /\ IF ~isValid(idMovie) \/ ~isValid(idComment)
               THEN Return(p, q, NewSt, InvalidIds)
               ELSE IF clientPromise = "rejected"
               THEN Return(p, q, s1, CatchZod("MongoError"))
               ELSE IF fault
               THEN Return(p, q, s2, CatchZod("MongoError"))
               ELSE IF commentExists = {}
               THEN Return(p, q, s2, CommentNotFound)
               ELSE Await(p, q, s2, NoLoc, "cuUpdate")
            /\ UNCHANGED <<db, clientPromise>>

\* A PUT that applies the body's text before it validates the body.
Comment_PUT_updateOne_WriteFirst(p) ==
    /\ pc[p] = "cuUpdate"
    /\ req[p].body.kind = "object"
    /\ LET body == req[p].body
           s0 == ReadBody(st[p])
           s1 == Issue(s0, TRUE, FALSE)
           matched == { c \in comments : c._id = createFromHexString(req[p].idComment) }
       IN  /\ comments' = { IF c \in matched
                             THEN [c EXCEPT !.text = body.text]
                             ELSE c : c \in comments }
           /\ IF ~commentSchemaOk(body)
              THEN Return(p, req[p], s1, CatchZod("ZodError"))
              ELSE Return(p, req[p], Validated(s1),
                          NextResponseJson([status |-> 200,
                                            message |-> "Comment updated successfully"]))
           /\ UNCHANGED <<movies, theaters, nextOid, clientPromise>>

\* PUT, from request.json() to updateOne({_id: idComment}, {$set: validData});
\* the result of updateOne is not looked at.
Comment_PUT_updateOne(p) ==
    /\ pc[p] = "cuUpdate"
    /\ \E fault \in Faults(commentSchemaOk(req[p].body)) :
        LET body == req[p].body
            s0 == ReadBody(st[p])
            s1 == Issue(Validated(s0), TRUE, fault)
            matched == { c \in comments : c._id = createFromHexString(req[p].idComment) }
        IN  IF jsonThrows(body)
            THEN Return(p, req[p], s0, CatchZod("SyntaxError")) /\ UNCHANGED <<db, clientPromise>>
            ELSE IF ~commentSchemaOk(body)
            THEN Return(p, req[p], s0, CatchZod("ZodError")) /\ UNCHANGED <<db, clientPromise>>
            ELSE IF fault
            THEN Return(p, req[p], s1, CatchZod("MongoError")) /\ UNCHANGED <<db, clientPromise>>
            ELSE /\ comments' = { IF c \in matched
                                  THEN [c EXCEPT !.text = body.text]
                                  ELSE c : c \in comments }
                 /\ Return(p, req[p], s1,
                           NextResponseJson([status |-> 200,
                                             message |-> "Comment updated successfully"]))
                 /\ UNCHANGED <<movies, theaters, nextOid, clientPromise>>

Comment_DELETE(p) ==
    /\ Ready(p)
    /\ \E idMovie \in PathIds, idComment \in PathIds :
       \E fault \in Faults(/\ isValid(idMovie) /\ isValid(idComment)
                            /\ clientPromise = "resolved") :
        LET q == Request("Comment_DELETE", idMovie, idComment, NoId, NoBody)
            s1 == Connect(NewSt)
            s2 == Issue(s1, TRUE, fault)
            matched == FindComment(comments, idComment, idMovie)
        IN  IF ~isValid(idMovie) \/ ~isValid(idComment)
            THEN Return(p, q, NewSt, InvalidIds) /\ UNCHANGED <<db, clientPromise>>
            ELSE IF clientPromise = "rejected"
            THEN Return(p, q, s1, InternalServerError("MongoError")) /\ UNCHANGED <<db, clientPromise>>
            ELSE IF fault
            THEN Return(p, q, s2, InternalServerError("MongoError")) /\ UNCHANGED <<db, clientPromise>>
            ELSE IF matched = {}
            THEN Return(p, q, s2, CommentNotFound) /\ UNCHANGED <<db, clientPromise>>
            ELSE /\ comments' = comments \ matched
                 /\ Return(p, q, s2,
                           NextResponseJson([status |-> 200,
                                             message |-> "Comment deleted successfully"]))
                 /\ UNCHANGED <<movies, theaters, nextOid, clientPromise>>

\* ------------------------------------------------- unsupported methods
\* The handlers that only answer 405, by route and method.
Unsupported ==
    { <<"Movies", "PUT">>, <<"Movies", "DELETE">>,
      <<"Comments", "PUT">>, <<"Comments", "DELETE">>,
      <<"Theaters", "PUT">>, <<"Theaters", "DELETE">>,
      <<"Theater", "POST">>,
      <<"Stub", "GET">>, <<"Stub", "POST">>, <<"Stub", "PUT">>, <<"Stub", "DELETE">> }

\* What the handler's error text names: POST /api/theaters/{idTheater} says PUT.
UnsupportedMethodNamed(rm) ==
    IF rm = <<"Theater", "POST">> THEN "PUT" ELSE rm[2]

MethodNotAllowed(p) ==
    /\ Ready(p)
    /\ \E rm \in Unsupported :
        Return(p, Request("MethodNotAllowed", NoId, NoId, NoId, NoBody), NewSt,
               MethodNotAllowedResponse(UnsupportedMethodNamed(rm)))
    /\ UNCHANGED <<db, clientPromise>>

\* A worker that keeps the record of the request it has served.
Finish_KeepRecord(p) ==
    /\ pc[p] = "done"
    /\ pc' = [pc EXCEPT ![p] = "idle"]
    /\ UNCHANGED <<req, st, resp, loc, db, clientPromise>>

\* The response has gone to the client; the worker takes the next request.
Finish(p) ==
    /\ pc[p] = "done"
    /\ pc' = [pc EXCEPT ![p] = "idle"]
    /\ req' = [req EXCEPT ![p] = NoReq]
    /\ st' = [st EXCEPT ![p] = NewSt]
    /\ resp' = [resp EXCEPT ![p] = NoResp]
    /\ loc' = [loc EXCEPT ![p] = NoLoc]
    /\ UNCHANGED <<db, clientPromise>>

MovieSteps(p) ==
    \/ Movies_GET(p)
    \/ Movies_POST(p)
    \/ Movie_GET(p)
    \/ Movie_PUT(p)
    \/ Movie_DELETE(p)
    \/ Movie_POST(p)

CommentSteps(p) ==
    \/ Comments_GET(p)
    \/ Comments_POST(p)
    \/ Comments_POST_insertOne(p)
    \/ Comment_GET(p)
    \/ Comment_PUT(p)
    \/ Comment_PUT_updateOne(p)
    \/ Comment_DELETE(p)

TheaterSteps(p) ==
    \/ Theaters_GET(p)
    \/ Theaters_POST(p)
    \/ Theaters_POST_findExisting(p)
    \/ Theaters_POST_insertOne(p)
    \/ Theater_GET(p)
    \/ Theater_PUT(p)
    \/ Theater_DELETE(p)

\* One worker serving requests to every handler, one request at a time.
Next ==
    \E p \in SeqWorkers :
        \/ MovieSteps(p) \/ CommentSteps(p) \/ TheaterSteps(p)
        \/ MethodNotAllowed(p) \/ Finish(p)
Spec == Init /\ [][Next]_vars

\* Concurrent workers serving theater requests, interleaved at the database
\* operations.
NextTheaters == \E p \in Workers : TheaterSteps(p) \/ Finish(p)
SpecTheaters == Init /\ [][NextTheaters]_vars
\* Two concurrent workers interleaved at the database operations: one serves
\* the comment POST and PUT requests, the other the DELETE requests for
\* comments and movies.
Writer == "w1"
Deleter == "w2"
NextComments ==
    \/ Comments_POST(Writer) \/ Comments_POST_insertOne(Writer)
    \/ Comment_PUT(Writer) \/ Comment_PUT_updateOne(Writer)
    \/ Comment_DELETE(Deleter) \/ Movie_DELETE(Deleter)
    \/ \E p \in Workers : Finish(p)
SpecComments == Init /\ [][NextComments]_vars
\* The list handlers read collections that already hold up to MaxDocs
\* documents.
MovieDocs(n) == { [_id |-> i, title |-> "t1"] : i \in 1..n }
TheaterDocs(n) ==
    { [_id |-> i, theaterId |-> i,
       location |-> [address |-> CHOOSE a \in Addresses : a.city = "c1",
                     geo |-> "Point"]] : i \in 1..n }

InitList ==
    /\ movies \in { MovieDocs(n) : n \in 0..MaxDocs }
    /\ theaters \in { TheaterDocs(n) : n \in 0..MaxDocs }
    /\ comments = {}
    /\ nextOid = MaxDocs + 1
    /\ clientPromise \in {"resolved", "rejected"}
    /\ pc = [p \in Workers |-> "idle"]
    /\ req = [p \in Workers |-> NoReq]
    /\ loc = [p \in Workers |-> NoLoc]
    /\ st = [p \in Workers |-> NewSt]
    /\ resp = [p \in Workers |-> NoResp]

NextList == \E p \in SeqWorkers : Movies_GET(p) \/ Theaters_GET(p) \/ Finish(p)
SpecList == InitList /\ [][NextList]_vars
\* ================================================================ claims
Status(p) == resp[p].body.status
Fields(p) == DOMAIN resp[p].body
Done(p) == pc[p] = "done"

BodyHandlers ==
    {"Movies_POST", "Movie_PUT", "Movie_POST", "Comments_POST", "Comment_PUT",
     "Theaters_POST", "Theater_PUT"}

\* The handlers that read the database before they validate the body.
ReadFirstHandlers == {"Theaters_POST", "Comments_POST", "Comment_PUT"}

\* C1 (as stated): every handler issues 0 or 1 database operations per request.
C1_AtMostOneOperation == \A p \in Workers : st[p].ops <= 1

\* C1 (amended): a request issues at most three database operations; more
\* than one only in POST /api/theaters (up to 3), POST
\* /api/movies/{idMovie}/comments and PUT
\* /api/movies/{idMovie}/comments/{idComment} (up to 2 each).
C1_OperationsPerRequest ==
    \A p \in Workers :
        /\ st[p].ops <= 3
        /\ st[p].ops > 1 => req[p].handler \in ReadFirstHandlers
        /\ st[p].ops > 2 => req[p].handler = "Theaters_POST"

C1_Witness ==
    \E p \in Workers :
        /\ Done(p) /\ req[p].handler = "Theaters_POST"
        /\ st[p].ops = 3 /\ Status(p) = 201

\* The body is parseable JSON that its schema rejects (stated on the body's
\* own fields, not through the schema operators).
SchemaInvalidBody(q) ==
    /\ q.handler \in BodyHandlers
    /\ \/ q.body.kind = "null"
       \/ /\ q.body.kind = "object"
          /\ \/ q.handler \in {"Movies_POST", "Movie_PUT", "Movie_POST"}
                /\ q.body.fields = "bad"
             \/ q.handler = "Movies_POST" /\ q.body._id # "absent"
             \/ q.handler \in {"Theaters_POST", "Theater_PUT"}
                /\ q.body.address = Missing
             \/ q.handler = "Theaters_POST" /\ q.body._id # "absent"
             \/ q.handler \in {"Comments_POST", "Comment_PUT"}
                /\ q.body.email = "bad"

\* C2 (as stated): a handler that accepts a body issues no database
\* operation, read or write, before the body is validated.
C2_NoOperationBeforeValidation ==
    \A p \in Workers : req[p].handler \in BodyHandlers => st[p].early = 0

\* C2 (amended): a handler that accepts a body issues no database write
\* before the body is validated, so a schema-invalid body causes no write; it
\* issues at most one read before validation, and only in POST /api/theaters,
\* POST comments and PUT comment.
C2_NoWriteBeforeValidation ==
    \A p \in Workers :
        req[p].handler \in BodyHandlers =>
            /\ st[p].earlyW = 0
            /\ st[p].early <= 1
            /\ st[p].early = 1 => req[p].handler \in ReadFirstHandlers
            /\ SchemaInvalidBody(req[p]) => st[p].writes = 0 /\ st[p].inserted = 0

C2_Witness ==
    \E p \in Workers :
        /\ Done(p) /\ req[p].handler = "Comment_PUT"
        /\ SchemaInvalidBody(req[p])
        /\ st[p].early = 1 /\ st[p].writes = 0 /\ Status(p) = 400

StatusCodes == {200, 201, 400, 404, 405, 500}

\* C3: every request ends with a JSON envelope whose status is one of 200,
\* 201, 400, 404, 405, 500; no exception leaves a handler, and a handler
\* suspended at a database operation can always take its next step.
C3_AlwaysEnvelope ==
    \A p \in Workers :
        /\ Done(p) => /\ "status" \in Fields(p)
                      /\ Status(p) \in StatusCodes
        /\ pc[p] = "tpFind" => ENABLED Theaters_POST_findExisting(p)
        /\ pc[p] = "tpInsert" => ENABLED Theaters_POST_insertOne(p)
        /\ pc[p] = "cpInsert" => ENABLED Comments_POST_insertOne(p)
        /\ pc[p] = "cuUpdate" => ENABLED Comment_PUT_updateOne(p)

\* A body that is not JSON, a malformed path id and a failed database
\* operation each end in an envelope.
C3_Witness ==
    \E p \in Workers :
        /\ Done(p) /\ req[p].handler = "Movie_PUT"
        /\ req[p].body = BadJson /\ req[p].idMovie = Malformed
        /\ Status(p) = 500

\* C4 (as stated): every envelope is {status, message, data} on 200 and 201
\* and {status, message, error} on 400, 404, 405 and 500.
C4_UniformEnvelope ==
    \A p \in Workers :
        Done(p) =>
            /\ {"status", "message"} \subseteq Fields(p)
            /\ Status(p) \in {200, 201} => Fields(p) = {"status", "message", "data"}
            /\ Status(p) \in {400, 404, 405, 500} =>
                   Fields(p) = {"status", "message", "error"}

\* C4 (amended): every envelope carries status and only fields among status,
\* message, data, error, errors; data only with 200 or 201, error or errors
\* only with 400, 404, 405 or 500; every envelope but a 200 carries message,
\* a 200 carries message or data, a 201 carries data, a 405 or 500 carries
\* error.
C4_EnvelopeFields ==
    \A p \in Workers :
        Done(p) =>
            /\ "status" \in Fields(p)
            /\ Fields(p) \subseteq {"status", "message", "data", "error", "errors"}
            /\ "data" \in Fields(p) => Status(p) \in {200, 201}
            /\ Fields(p) \cap {"error", "errors"} # {} =>
                   Status(p) \in {400, 404, 405, 500}
            /\ Status(p) # 200 => "message" \in Fields(p)
            /\ Status(p) = 200 => Fields(p) \cap {"message", "data"} # {}
            /\ Status(p) = 201 => "data" \in Fields(p)
            /\ Status(p) \in {405, 500} => "error" \in Fields(p)

\* A validation failure answered with the field errors.
C4_Witness ==
    \E p \in Workers :
        /\ Done(p) /\ req[p].handler = "Movies_POST"
        /\ Status(p) = 400 /\ Fields(p) = {"status", "message", "errors"}

\* C5: the HTTP status code of every response equals the status field of its
\* envelope.
C5_HttpStatusIsEnvelopeStatus ==
    \A p \in Workers : Done(p) => resp[p].http = Status(p)

\* C6: no two stored theaters have the same theaterId.
C6_TheaterIdUnique ==
    \A t1 \in theaters, t2 \in theaters : t1.theaterId = t2.theaterId => t1 = t2

SameAddress(t, body) == t.location.address = body.address

ValidTheaterBody(body) ==
    /\ body.kind = "object" /\ body._id = "absent"
    /\ body.geo = "Point" /\ body.address # Missing

\* Worker p's POST /api/theaters takes a step: with a schema-valid body it
\* goes on to the address lookup; the lookup answers 400 'Theater already
\* exists', inserting nothing, exactly when a stored theater has the body's
\* address; the insert adds one theater with that address and answers 201
\* with its insertedId and theaterId.  works: whether the step's connection
\* and database operation succeeded.
PostTheatersStep(p, works) ==
    /\ ( /\ pc[p] = "idle" /\ pc'[p] # "idle"
         /\ req'[p].handler = "Theaters_POST"
         /\ ValidTheaterBody(req'[p].body) /\ works )
       => pc'[p] = "tpFind" /\ theaters' = theaters
    /\ ( pc[p] = "tpFind" /\ pc'[p] # "tpFind" /\ works )
       => IF \E t \in theaters : SameAddress(t, req[p].body)
          THEN /\ pc'[p] = "done"
               /\ resp'[p].body.status = 400
               /\ resp'[p].body.message = "Theater already exists"
               /\ st'[p].inserted = 0 /\ st'[p].writes = 0
               /\ theaters' = theaters
          ELSE pc'[p] = "tpInsert" /\ theaters' = theaters
    /\ ( pc[p] = "tpInsert" /\ pc'[p] # "tpInsert" /\ works )
       => /\ pc'[p] = "done"
          /\ resp'[p].body.status = 201
          /\ st'[p].inserted = 1 /\ st'[p].writes = 1
          /\ \E t \in theaters' \ theaters :
                /\ theaters' = theaters \cup {t}
                /\ t._id = resp'[p].body.data.insertedId
                /\ t.theaterId = resp'[p].body.data.theaterId
                /\ SameAddress(t, req[p].body)

\* C7 (as stated): POST /api/theaters with a schema-valid body answers 400
\* 'Theater already exists' and inserts nothing when a stored theater has the
\* address, and otherwise inserts one theater and answers 201 with its
\* insertedId and theaterId.
C7_DuplicateOrCreated ==
    [][\A p \in Workers : PostTheatersStep(p, TRUE)]_vars

\* C7 (amended): the same, provided the connection and the request's
\* database operations succeed, the stored theaters being those at the time
\* of the handler's address lookup.
C7_DuplicateOrCreatedIfDbWorks ==
    [][\A p \in Workers : PostTheatersStep(p, ~st'[p].dbFault)]_vars

\* Both cases have happened: a theater was created, and a later request with
\* its address was refused.
C7_Witness ==
    \E p \in Workers :
        /\ Done(p) /\ req[p].handler = "Theaters_POST"
        /\ ValidTheaterBody(req[p].body) /\ ~st[p].dbFault
        /\ Status(p) = 400 /\ st[p].ops = 2
        /\ \E t \in theaters : SameAddress(t, req[p].body)

\* C8: a response has status 500 only if the connection or a database
\* operation of the request failed.
C8_ServerErrorOnlyOnDbFailure ==
    \A p \in Workers : Done(p) /\ Status(p) = 500 => st[p].dbFault

PathIdHandlers ==
    {"Comments_GET", "Comments_POST", "Comment_GET", "Comment_PUT",
     "Comment_DELETE", "Theater_GET", "Theater_PUT", "Theater_DELETE"}

MalformedPathId(q) ==
    \/ q.idMovie = Malformed
    \/ q.idComment = Malformed
    \/ q.idTheater = Malformed

\* C9: in the comment handlers and the /api/theaters/{idTheater} handlers a
\* malformed path id is answered 400 without awaiting the connection,
\* reading the body or issuing a database operation.
C9_MalformedIdRejectedFirst ==
    \A p \in Workers :
        req[p].handler \in PathIdHandlers /\ MalformedPathId(req[p]) =>
            /\ Done(p) /\ Status(p) = 400
            /\ ~st[p].conn /\ ~st[p].bodyRead /\ st[p].ops = 0

C9_Witness ==
    \E p \in Workers :
        /\ Done(p) /\ req[p].handler = "Comment_PUT"
        /\ req[p].idMovie \in Oids /\ req[p].idComment = Malformed
        /\ req[p].body.kind = "object" /\ Status(p) = 400

\* C10: GET /api/movies/{idMovie} answers 400 'Invalid movie ID' whenever
\* idMovie is malformed, whatever the availability of the database.
C10_InvalidMovieIdIs400 ==
    \A p \in Workers :
        Done(p) /\ req[p].handler = "Movie_GET" /\ req[p].idMovie = Malformed =>
            Status(p) = 400 /\ resp[p].body.message = "Invalid movie ID"

collections == <<movies, theaters, comments>>

BadRequestHandlers ==
    {"Movies_POST", "Movie_PUT", "Theaters_POST", "Theater_PUT",
     "Comments_POST", "Comment_PUT"}

\* C11: a request to movies POST, movie PUT, theaters POST, theater PUT,
\* comments POST or comment PUT that is answered 400 leaves the movies,
\* theaters and comments collections as they were: the step that answers 400
\* changes no collection and the request has issued no write, and no step
\* that leaves such a request suspended changes a collection.
C11_BadRequestChangesNothing ==
    [][\A p \in Workers :
          req'[p].handler \in BadRequestHandlers /\ pc'[p] # pc[p] =>
              /\ pc'[p] \notin {"done", "idle"} => collections' = collections
              /\ pc'[p] = "done" /\ resp'[p].body.status = 400 =>
                    /\ collections' = collections
                    /\ st'[p].writes = 0 /\ st'[p].inserted = 0]_vars

\* A schema-invalid body for a stored comment, answered 400 with the comment
\* still as it was stored.
C11_Witness ==
    \E p \in Workers :
        /\ Done(p) /\ req[p].handler = "Comment_PUT" /\ Status(p) = 400
        /\ req[p].body.kind = "object" /\ req[p].body.email = "bad"
        /\ \E c \in comments :
              /\ c._id = req[p].idComment /\ c.movie_id = req[p].idMovie
              /\ c.text # req[p].body.text

ValidCommentBody(body) == body.kind = "object" /\ body.email = "ok"

\* Worker p's POST /api/movies/{idMovie}/comments takes a step: with a valid
\* idMovie, the movie lookup answers 404 'Movie not found', inserting
\* nothing, exactly when no stored movie has that id, and otherwise goes on
\* to the body; with a valid body the insert adds one comment of that movie
\* and answers 201 with its insertedId.  works: whether the step's connection
\* and database operation succeeded.
PostCommentStep(p, works) ==
    /\ ( /\ pc[p] = "idle" /\ pc'[p] # "idle"
         /\ req'[p].handler = "Comments_POST"
         /\ req'[p].idMovie \in Oids /\ works )
       => IF \E m \in movies : m._id = req'[p].idMovie
          THEN pc'[p] = "cpInsert" /\ comments' = comments
          ELSE /\ pc'[p] = "done"
               /\ resp'[p].body.status = 404
               /\ resp'[p].body.message = "Movie not found"
               /\ st'[p].inserted = 0 /\ st'[p].writes = 0
               /\ comments' = comments
    /\ ( /\ pc[p] = "cpInsert" /\ pc'[p] # "cpInsert"
         /\ ValidCommentBody(req[p].body) /\ works )
       => /\ pc'[p] = "done"
          /\ resp'[p].body.status = 201
          /\ st'[p].inserted = 1 /\ st'[p].writes = 1
          /\ \E c \in comments' \ comments :
                /\ comments' = comments \cup {c}
                /\ c._id = resp'[p].body.data.insertedId
                /\ c.movie_id = req[p].idMovie
                /\ c.text = req[p].body.text

\* C12 (as stated): POST /api/movies/{idMovie}/comments with a valid idMovie
\* that matches no stored movie answers 404 'Movie not found' and inserts no
\* comment; when the movie exists and the body is valid it inserts exactly
\* one comment and answers 201 with its insertedId.
C12_NotFoundOrCreated ==
    [][\A p \in Workers : PostCommentStep(p, TRUE)]_vars

\* C12 (amended): the same, provided the connection and the request's
\* database operations succeed, the stored movies being those at the time of
\* the handler's movie lookup.
C12_NotFoundOrCreatedIfDbWorks ==
    [][\A p \in Workers : PostCommentStep(p, ~st'[p].dbFault)]_vars

\* Both cases have happened: a comment was created for a stored movie, and a
\* request for a movie that is not stored was answered 404.
C12_Witness ==
    \E p \in Workers, c \in comments :
        /\ Done(p) /\ req[p].handler = "Comments_POST"
        /\ req[p].idMovie \in Oids /\ ~st[p].dbFault
        /\ Status(p) = 404 /\ st[p].ops = 1
        /\ \A m \in movies : m._id # req[p].idMovie

\* The stored comments with worker p's idComment and idMovie.
Addressed(coll, q) ==
    { c \in coll : c._id = q.idComment /\ c.movie_id = q.idMovie }

\* C13: PUT /api/movies/{idMovie}/comments/{idComment} answers 200 'Comment
\* updated successfully' only if the comment with that id and movie was
\* stored when the update was applied and its text is now the body's, under
\* any interleaving with a concurrent DELETE of the comment.
C13_UpdatedOnlyIfPresent ==
    [][\A p \in Workers :
          ( /\ req[p].handler = "Comment_PUT"
            /\ pc[p] # "done" /\ pc'[p] = "done"
            /\ resp'[p].body.status = 200 )
          => /\ Addressed(comments, req[p]) # {}
             /\ Addressed(comments', req[p]) # {}
             /\ \A c \in Addressed(comments', req[p]) : c.text = req[p].body.text]_vars

\* The same body with its `_id` removed.
WithoutId(body) ==
    IF body.kind = "object" THEN [body EXCEPT !._id = "absent"] ELSE body

\* C14: in PUT /api/movies/{idMovie} a body field `_id` is ignored: the
\* response (its status and message) and the movies collection afterwards
\* are those the same body without `_id` gives from the same stored movies,
\* and no stored movie's _id changes.
C14_BodyIdIgnored ==
    [][\A p \in Workers :
          ( pc[p] = "idle" /\ pc'[p] = "done" /\ req'[p].handler = "Movie_PUT" )
          => /\ \E fault \in BOOLEAN :
                   LET o == Movie_PUT_Outcome(req'[p].idMovie,
                                              WithoutId(req'[p].body), fault)
                   IN  /\ resp'[p].body.status = o.resp.body.status
                       /\ resp'[p].body.message = o.resp.body.message
                       /\ movies' = o.movies
             /\ { m._id : m \in movies' } = { m._id : m \in movies }]_vars

\* C15: POST /api/movies, the database working: a body with exactly the
\* documented required fields (title, plot, genres, year) inserts one movie
\* and is answered 201 'Movie created successfully'; a body missing one of
\* the four is answered 400 'Invalid movie data'.
C15_DocumentedFieldsAccepted ==
    \A p \in Workers :
        ( /\ Done(p) /\ req[p].handler = "Movies_POST"
          /\ req[p].body.kind = "object" /\ ~st[p].dbFault )
        => /\ req[p].body.fields = "documented" =>
                 /\ Status(p) = 201
                 /\ resp[p].body.message = "Movie created successfully"
                 /\ st[p].inserted = 1
           /\ req[p].body.fields = "bad" =>
                 /\ Status(p) = 400
                 /\ resp[p].body.message = "Invalid movie data"
                 /\ st[p].inserted = 0

ListHandlers == {"Movies_GET", "Theaters_GET"}
Listed(p) == resp[p].body.data.array
ListedFrom(p) == IF req[p].handler = "Movies_GET" THEN movies ELSE theaters

\* Worker p's list request is answered 200 with min(10, n) of the n stored
\* documents.  The array is kept as the set of its documents, so its
\* cardinality counts the distinct documents returned.
FirstTen(p) ==
    /\ Status(p) = 200
    /\ "data" \in Fields(p)
    /\ Listed(p) \subseteq ListedFrom(p)
    /\ Cardinality(Listed(p)) <= 10
    /\ Cardinality(Listed(p)) =
           IF Cardinality(ListedFrom(p)) < 10 THEN Cardinality(ListedFrom(p)) ELSE 10

\* C16 (as stated): GET /api/movies and GET /api/theaters answer 200 with a
\* data array of min(10, n) distinct documents of the collection, never more
\* than 10.
C16_FirstTen ==
    \A p \in Workers :
        Done(p) /\ req[p].handler \in ListHandlers => FirstTen(p)

\* C16 (amended): the same, provided the connection and the find succeed.
C16_FirstTenIfDbWorks ==
    \A p \in Workers :
        Done(p) /\ req[p].handler \in ListHandlers /\ ~st[p].dbFault => FirstTen(p)

\* More than ten movies are stored and ten of them are listed.
C16_Witness ==
    \E p \in Workers :
        /\ Done(p) /\ req[p].handler = "Movies_GET" /\ Status(p) = 200
        /\ Cardinality(movies) > 10 /\ Cardinality(Listed(p)) = 10

\* A step of worker p in handler h.
HandlerStep(p, h) ==
    \/ h = "Theaters_GET" /\ Theaters_GET(p)
    \/ h = "Theater_GET" /\ Theater_GET(p)
    \/ h = "Theater_PUT" /\ Theater_PUT(p)
    \/ h = "Theater_DELETE" /\ Theater_DELETE(p)
    \/ h = "Movies_GET" /\ Movies_GET(p)
    \/ h = "Movies_POST" /\ Movies_POST(p)
    \/ h = "Movie_GET" /\ Movie_GET(p)
    \/ h = "Movie_PUT" /\ Movie_PUT(p)
    \/ h = "Movie_DELETE" /\ Movie_DELETE(p)
    \/ h = "Movie_POST" /\ Movie_POST(p)
    \/ h = "Comments_GET" /\ Comments_GET(p)
    \/ h = "Comment_GET" /\ Comment_GET(p)
    \/ h = "Comment_DELETE" /\ Comment_DELETE(p)
    \/ h = "MethodNotAllowed" /\ MethodNotAllowed(p)
    \/ h = "Theaters_POST" /\ ( \/ Theaters_POST(p)
                                \/ Theaters_POST_findExisting(p)
                                \/ Theaters_POST_insertOne(p) )
    \/ h = "Comments_POST" /\ (Comments_POST(p) \/ Comments_POST_insertOne(p))
    \/ h = "Comment_PUT" /\ (Comment_PUT(p) \/ Comment_PUT_updateOne(p))

\* What a request shows after a step: where the handler is, the status and
\* message of its response if it has returned, and the collections.
Outcome(at, r, coll) ==
    [at |-> at,
     status |-> IF "status" \in DOMAIN r.body THEN r.body.status ELSE 0,
     message |-> IF "message" \in DOMAIN r.body THEN r.body.message ELSE "",
     collections |-> coll]

\* The step worker p takes for its request could not, from the same state,
\* have come out otherwise.  sameDb: the other outcomes considered are those
\* in which the connection and the database operation succeed or fail as
\* they did in the step taken.
SameOutcome(p, sameDb) ==
    ( pc[p] # "done" /\ pc'[p] # pc[p] ) =>
        \A q \in {req'[p]}, f \in {st'[p].dbFault},
           o \in {Outcome(pc'[p], resp'[p], collections')} :
            ~ENABLED ( /\ HandlerStep(p, q.handler)
                       /\ req'[p] = q
                       /\ sameDb => st'[p].dbFault = f
                       /\ Outcome(pc'[p], resp'[p], collections') # o )

\* Between requests a worker holds nothing of the requests it has served,
\* and no step changes the connection promise of the process.
NothingKept(p) ==
    /\ clientPromise' = clientPromise
    /\ pc'[p] = "idle" =>
          /\ req'[p] = NoReq /\ st'[p] = NewSt
          /\ loc'[p] = NoLoc /\ resp'[p] = NoResp

====
